---- MODULE Spec2Model ----
(***************************************************************************)
(* Offset/limit pagination of graphene_django_pagination:                  *)
(* DjangoPaginationConnectionField._resolve_connection (ordering, then the *)
(* window planner connection_from_list_slice) and the totalCount resolver  *)
(* NodeConnection.resolve_total_count, over a request context that carries *)
(* the _CachedDjangoPaginationField slot.                                  *)
(*                                                                         *)
(* Python's None is the empty tuple <<>> and a present value v is <<v>>.   *)
(* Python strings are tuples of one-character strings, so that replace,    *)
(* split, the camelCase regex and the substring test are computed.         *)
(***************************************************************************)
EXTENDS Integers, Sequences, FiniteSets, TLC

VARIABLES store, args, max_limit, node_ordering, context, connection, error,
          calls, totals, pc, fields

vars == <<store, args, max_limit, node_ordering, context, connection, error,
          calls, totals, pc, fields>>

(***************************************************************************)
(* Bounds of the model.                                                    *)
(***************************************************************************)
MaxN == 3          \* largest number of rows of the sequence
MaxLimit == 3      \* largest requested limit
MaxOffset == 3     \* largest requested offset
MaxHardLimit == 1  \* largest configured max_limit
MaxResolves == 2   \* totalCount resolver calls on one connection

None == <<>>
Some(v) == <<v>>
IsNone(o) == o = <<>>
Get(o) == o[1]

Min(a, b) == IF a < b THEN a ELSE b
Max(a, b) == IF a > b THEN a ELSE b

(***************************************************************************)
(* Strings.                                                                *)
(***************************************************************************)
UpperCase == <<"A", "B", "C", "D", "E", "F", "G", "H", "I", "J", "K", "L", "M",
               "N", "O", "P", "Q", "R", "S", "T", "U", "V", "W", "X", "Y", "Z">>
LowerCase == <<"a", "b", "c", "d", "e", "f", "g", "h", "i", "j", "k", "l", "m",
               "n", "o", "p", "q", "r", "s", "t", "u", "v", "w", "x", "y", "z">>

IsUpper(c) == \E i \in 1..Len(UpperCase) : UpperCase[i] = c

\* str.lower() on one character
Lower(c) ==
    IF IsUpper(c)
    THEN LowerCase[CHOOSE i \in 1..Len(UpperCase) : UpperCase[i] = c]
    ELSE c

\* ordering.replace(' ', '')
RemoveSpaces(s) == SelectSeq(s, LAMBDA c : c # " ")

\* str.split(','): the pieces between the commas, in order
RECURSIVE Split(_)
Split(s) ==
    IF \E i \in 1..Len(s) : s[i] = ","
    THEN LET k == CHOOSE i \in 1..Len(s) :
                      s[i] = "," /\ \A j \in 1..(i - 1) : s[j] # ","
         IN  <<SubSeq(s, 1, k - 1)>> \o Split(SubSeq(s, k + 1, Len(s)))
    ELSE <<s>>

\* sub in msg
Contains(msg, sub) ==
    \E i \in 0..(Len(msg) - Len(sub)) : SubSeq(msg, i + 1, i + Len(sub)) = sub

\* re.sub(r'(?<!^)(?=[A-Z])', '_', field).lower()
RECURSIVE SnakeFrom(_, _)
SnakeFrom(field, i) ==
    IF i > Len(field) THEN <<>>
    ELSE (IF i > 1 /\ IsUpper(field[i]) THEN <<"_">> ELSE <<>>)
         \o <<Lower(field[i])>> \o SnakeFrom(field, i + 1)

CamelToSnake(field) == SnakeFrom(field, 1)

S_desc == <<"d", "e", "s", "c">>
S_asc == <<"a", "s", "c">>

AnyNonAscPrefix(order) == IF order # S_asc THEN <<"-">> ELSE <<>>

\* order = '-' if order == 'desc' else ''
OrderPrefix(order) == IF order = S_desc THEN <<"-">> ELSE <<>>

LimitPositiveMsg ==
    <<"L", "i", "m", "i", "t", " ", "m", "u", "s", "t", " ", "b", "e", " ",
      "p", "o", "s", "i", "t", "i", "v", "e", " ", "i", "n", "t", "e", "g",
      "e", "r", " ", "g", "r", "e", "a", "t", "e", "r", " ", "t", "h", "a",
      "n", " ", "0">>

PositiveInteger ==
    <<"p", "o", "s", "i", "t", "i", "v", "e", " ", "i", "n", "t", "e", "g",
      "e", "r">>

(***************************************************************************)
(* The sequence: rows of a model with the columns id and created_at.  A    *)
(* row's id is its position in the unordered queryset.                     *)
(***************************************************************************)
S_id == <<"i", "d">>
S_created_at == <<"c", "r", "e", "a", "t", "e", "d", "_", "a", "t">>

Columns == {S_id, S_created_at}

ColumnValue(row, column) ==
    CASE column = S_id -> row.id
      [] column = S_created_at -> row.created_at

Stamps == {1, 2}

Stores ==
    UNION { { [i \in 1..n |-> [id |-> i, created_at |-> k[i]]] :
              k \in [1..n -> Stamps] } : n \in 0..MaxN }

Rearrangements(items) ==
    { [i \in 1..Len(items) |-> items[p[i]]] : p \in Permutations(1..Len(items)) }

IsSortedBy(items, column, descending) ==
    \A i \in 1..(Len(items) - 1) :
        IF descending
        THEN ColumnValue(items[i], column) >= ColumnValue(items[i + 1], column)
        ELSE ColumnValue(items[i], column) <= ColumnValue(items[i + 1], column)

(***************************************************************************)
(* Inputs of a field resolution.                                           *)
(***************************************************************************)
O_createdAt_desc ==
    <<"c", "r", "e", "a", "t", "e", "d", "A", "t", ",", " ", "d", "e", "s", "c">>
O_createdAt_asc ==
    <<"c", "r", "e", "a", "t", "e", "d", "A", "t", ",", "a", "s", "c">>
O_CreatedAt_DESC ==
    <<"C", "r", "e", "a", "t", "e", "d", "A", "t", " ", ",", " ", "D", "E", "S", "C">>
O_id_desc == <<"i", "d", ",", " ", "d", "e", "s", "c">>
O_createdat_asc ==
    <<"c", "r", "e", "a", "t", "e", "d", "a", "t", ",", " ", "a", "s", "c">>
O_createdAt == <<"c", "r", "e", "a", "t", "e", "d", "A", "t">>
O_id_desc_x == <<"i", "d", ",", "d", "e", "s", "c", ",", "x">>

O_empty == <<>>

OrderingStrings ==
    { O_empty, O_createdAt_desc, O_createdAt_asc, O_CreatedAt_DESC, O_id_desc,
      O_createdat_asc, O_createdAt, O_id_desc_x }

\* the ordering argument: left out, or a string (the empty one included)
Orderings == {None} \cup { Some(o) : o \in OrderingStrings }

\* `if ordering:` is false for None and for the empty string
IsTruthy(ordering) == ~IsNone(ordering) /\ Len(Get(ordering)) > 0

Limits == {None} \cup { Some(l) : l \in (-1)..MaxLimit }
Offsets == {None} \cup { Some(o) : o \in 0..MaxOffset }
HardLimits == {None} \cup { Some(h) : h \in 1..MaxHardLimit }

Args == [limit : Limits, offset : Offsets, ordering : Orderings]

NoArgs == [limit |-> None, offset |-> None, ordering |-> None]

\* a request object on which no attribute has been set
FreshContext == [_CachedDjangoPaginationField |-> None, _row_result_ids |-> None]

Raised(type, message) == Some([type |-> type, message |-> message])

(***************************************************************************)
(* connection_from_list_ordering                                           *)
(***************************************************************************)
\* QuerySet.order_by(name): a leading '-' asks for descending order; rows
\* with equal keys come in an order the database chooses.
OrderBy(items_list, name) ==
    LET descending == Len(name) > 0 /\ name[1] = "-"
        column == IF descending THEN Tail(name) ELSE name
    IN  IF column \in Columns
        THEN { [error |-> None, iterable |-> r] :
               r \in { x \in Rearrangements(items_list) :
                       IsSortedBy(x, column, descending) } }
        ELSE { [error |-> Raised("FieldError", <<>>), iterable |-> items_list] }

\* an unpack that takes the first two pieces and drops the others
LenientOrdering(items_list, ordering, has_ordering) ==
    LET parts == Split(RemoveSpaces(ordering))
    IN  IF Len(parts) < 2
        THEN { [error |-> Raised("ValueError", <<>>), iterable |-> items_list] }
        ELSE LET field == CamelToSnake(parts[1])
                 order == OrderPrefix(parts[2])
             IN  IF has_ordering
                 THEN { [error |-> None, iterable |-> r] :
                        r \in Rearrangements(items_list) }
                 ELSE OrderBy(items_list, order \o field)

connection_from_list_ordering(items_list, ordering, has_ordering) ==
    LET parts == Split(RemoveSpaces(ordering))
    IN  IF Len(parts) # 2
        THEN { [error |-> Raised("ValueError", <<>>), iterable |-> items_list] }
        ELSE LET field == CamelToSnake(parts[1])
                 order == OrderPrefix(parts[2])
             IN  IF has_ordering
                 THEN { [error |-> None, iterable |-> r] :
                        r \in Rearrangements(items_list) }
                 ELSE OrderBy(items_list, order \o field)

(***************************************************************************)
(* connection_from_list_slice                                              *)
(***************************************************************************)
\* list_slice[offset:limit]: the stop index given as the limit
SliceStopIsLimit(list_slice, start, stop) ==
    [i \in 1..Max(0, Min(stop - start, Len(list_slice)) - start) |-> list_slice[start + i]]

\* list_slice[start:stop] for 0 <= start <= stop
PySlice(list_slice, start, stop) ==
    [i \in 1..Max(0, Min(stop, Len(list_slice)) - start) |-> list_slice[start + i]]

_store_result_ids_on_context(result_list, ctx) ==
    IF Len(result_list) = 0
    THEN ctx
    ELSE [ctx EXCEPT !._row_result_ids =
              Some([i \in 1..Len(result_list) |-> result_list[i].id])]

PageInfo(has_previous_page, has_next_page) ==
    [has_previous_page |-> has_previous_page, has_next_page |-> has_next_page]

LimitIsNotNegative(limit) == limit >= 0

LimitIsPositive(limit) == limit > 0

ShortPageOnly(actual_count, offset, limit) ==
    0 < actual_count /\ actual_count < limit

EmptyPageIsLast(actual_count, offset, limit) ==
    actual_count = 0 \/ (0 < actual_count /\ actual_count < limit)

IsLastPage(actual_count, offset, limit) ==
    (actual_count = 0 /\ offset = 0) \/ (0 < actual_count /\ actual_count < limit)

TotalIsPageSize(offset, actual_count) == actual_count

DerivedTotal(offset, actual_count) == offset + actual_count

PreviousFromOne(offset) == offset > 1

HasPreviousPage(offset) == offset > 0

NextUpToTotal(offset, limit, total_count) == (offset + limit) <= total_count

HasNextPage(offset, limit, total_count) == (offset + limit) < total_count

connection_from_list_slice(list_slice, a, ctx) ==
    LET limit == a.limit
        offset == IF IsNone(a.offset) THEN 0 ELSE Get(a.offset)
    IN  IF IsNone(limit)
        THEN [error |-> None,
              connection |-> Some([results |-> list_slice,
                                   page_info |-> PageInfo(FALSE, FALSE)]),
              context |-> _store_result_ids_on_context(list_slice, ctx),
              calls |-> <<"materialize">>]
        ELSE IF ~LimitIsPositive(Get(limit))
        THEN [error |-> Raised("AssertionError", LimitPositiveMsg),
              connection |-> None, context |-> ctx, calls |-> <<>>]
        ELSE
        LET _slice_list == PySlice(list_slice, offset, offset + Get(limit))
            actual_count == Len(_slice_list)
            ctx1 == _store_result_ids_on_context(_slice_list, ctx)
        IN  IF IsLastPage(actual_count, offset, Get(limit))
            THEN LET total_count == DerivedTotal(offset, actual_count)
                 IN  [error |-> None,
                      connection |->
                          Some([results |-> _slice_list,
                                page_info |-> PageInfo(HasPreviousPage(offset), FALSE)]),
                      context |-> [ctx1 EXCEPT !._CachedDjangoPaginationField =
                                       Some(total_count)],
                      calls |-> <<"slice", "materialize">>]
            ELSE LET total_count == Len(list_slice)
                 IN  [error |-> None,
                      connection |->
                          Some([results |-> _slice_list,
                                page_info |->
                                    PageInfo(HasPreviousPage(offset),
                                             HasNextPage(offset, Get(limit), total_count))]),
                      context |-> [ctx1 EXCEPT !._CachedDjangoPaginationField =
                                       Some(total_count)],
                      calls |-> <<"slice", "materialize", "count">>]

(***************************************************************************)
(* DjangoPaginationConnectionField._resolve_connection: the outcomes of    *)
(* one field resolution (max_limit is accepted and not read).              *)
(***************************************************************************)
_resolve_connection(a, iterable, hard_limit, has_ordering, ctx) ==
    LET ordered == IF IsTruthy(a.ordering)
                   THEN connection_from_list_ordering(iterable, Get(a.ordering),
                                                      has_ordering)
                   ELSE { [error |-> None, iterable |-> iterable] }
    IN  { IF IsNone(o.error)
          THEN LET r == connection_from_list_slice(o.iterable, a, ctx)
               IN  [r EXCEPT !.connection =
                       IF IsNone(r.connection) THEN None
                       ELSE Some([results |-> Get(r.connection).results,
                                  page_info |-> Get(r.connection).page_info,
                                  iterable |-> o.iterable])]
          ELSE [error |-> o.error, connection |-> None, context |-> ctx,
                calls |-> <<>>]
          : o \in ordered }

(***************************************************************************)
(* NodeConnection.resolve_total_count                                      *)
(***************************************************************************)
AlwaysCount(conn, ctx) ==
    [value |-> Len(conn.iterable), calls |-> <<"count">>]

resolve_total_count(conn, ctx) ==
    IF ~IsNone(ctx._CachedDjangoPaginationField)
    THEN [value |-> Get(ctx._CachedDjangoPaginationField), calls |-> <<>>]
    ELSE [value |-> Len(conn.iterable), calls |-> <<"count">>]

(***************************************************************************)
(* The state machine.  The variables store .. pc describe one paginated    *)
(* field resolved alone; fields describes the paginated fields of a query  *)
(* that selects two of them, which share the request context.              *)
(***************************************************************************)
Fields == {1, 2}

IdleField ==
    [store |-> <<>>, args |-> NoArgs, connection |-> None, error |-> None,
     calls |-> <<>>, totals |-> <<>>, pc |-> "idle", rank |-> 0]

Init ==
    /\ fields = [f \in Fields |-> IdleField]
    /\ store = <<>>
    /\ args = NoArgs
    /\ max_limit = None
    /\ node_ordering = FALSE
    /\ context = FreshContext
    /\ connection = None
    /\ error = None
    /\ calls = <<>>
    /\ totals = <<>>
    /\ pc = "idle"

\* connection_resolver: the field's resolver supplies the queryset, the
\* query its arguments, and the planner runs with the request's context.
ResolveConnection ==
    /\ pc = "idle"
    /\ \E s \in Stores, a \in Args, h \in HardLimits, n \in BOOLEAN :
         \E r \in _resolve_connection(a, s, h, n, context) :
            /\ store' = s
            /\ args' = a
            /\ max_limit' = h
            /\ node_ordering' = n
            /\ context' = r.context
            /\ connection' = r.connection
            /\ error' = r.error
            /\ calls' = r.calls
            /\ pc' = IF IsNone(r.error) THEN "resolved" ELSE "failed"
    /\ UNCHANGED <<totals, fields>>

\* the executor resolves the totalCount field of the returned connection
ResolveTotalCount ==
    /\ pc = "resolved"
    /\ Len(totals) < MaxResolves
    /\ LET r == resolve_total_count(Get(connection), context)
       IN  /\ totals' = Append(totals, r)
           /\ calls' = calls \o r.calls
    /\ UNCHANGED <<store, args, max_limit, node_ordering, context, connection,
                   error, pc, fields>>

Next == ResolveConnection \/ ResolveTotalCount

Spec == Init /\ [][Next]_vars

(***************************************************************************)
(* Two paginated fields in one query: each field's resolver supplies its   *)
(* own queryset and arguments, and both planners and both totalCount       *)
(* resolvers get the same info.context.                                    *)
(***************************************************************************)
SharedStores == { s \in Stores : \A i \in 1..Len(s) : s[i].created_at = 1 }
SharedLimits == {None} \cup { Some(l) : l \in 0..MaxLimit }
SharedOffsets == {None, Some(1)}
SharedArgs == [limit : SharedLimits, offset : SharedOffsets, ordering : {None}]

single == <<store, args, max_limit, node_ordering, connection, error, calls,
            totals, pc>>

\* the number of planner invocations made with this request context
PlannersRun == Cardinality({ g \in Fields : fields[g].pc # "idle" })

\* connection_resolver of field f; rank is its place in the order in which
\* the planners ran
PlanField(f) ==
    /\ fields[f].pc = "idle"
    /\ \E s \in SharedStores, a \in SharedArgs :
         \E r \in _resolve_connection(a, s, None, FALSE, context) :
            /\ fields' = [fields EXCEPT ![f] =
                              [store |-> s, args |-> a,
                               connection |-> r.connection, error |-> r.error,
                               calls |-> r.calls, totals |-> <<>>,
                               pc |-> IF IsNone(r.error) THEN "resolved"
                                      ELSE "failed",
                               rank |-> PlannersRun + 1]]
            /\ context' = r.context
    /\ UNCHANGED single

\* the executor resolves totalCount of the connection returned for field f
TotalField(f) ==
    /\ fields[f].pc = "resolved"
    /\ Len(fields[f].totals) < MaxResolves
    /\ LET r == resolve_total_count(Get(fields[f].connection), context)
       IN  fields' = [fields EXCEPT ![f].totals = Append(@, r),
                                    ![f].calls = @ \o r.calls]
    /\ UNCHANGED context
    /\ UNCHANGED single

NextShared == \E f \in Fields : PlanField(f) \/ TotalField(f)

SpecShared == Init /\ [][NextShared]_vars

(***************************************************************************)
(* Vocabulary of the properties.                                           *)
(***************************************************************************)
Resolved == pc = "resolved"
Called == pc # "idle"
Limited == ~IsNone(args.limit)
Limit == Get(args.limit)
Offset == IF IsNone(args.offset) THEN 0 ELSE Get(args.offset)
N == Len(store)
Results == Get(connection).results
Ordered == Get(connection).iterable
PageInfoOf == Get(connection).page_info
Cached == context._CachedDjangoPaginationField
CountCalls == Cardinality({ i \in DOMAIN calls : calls[i] = "count" })

\* the rows of seq at the 0-based positions [from, from + length)
IsWindow(rows, seq, from, length) ==
    /\ Len(rows) = Min(length, Max(0, Len(seq) - from))
    /\ \A i \in 1..Len(rows) : rows[i] = seq[from + i]

\* the ordering step runs: an ordering string was given and is not empty
OrderingGiven == ~IsNone(args.ordering) /\ Get(args.ordering) # <<>>
Tokens == Split(RemoveSpaces(Get(args.ordering)))

\* snake_case as the specification words it: an underscore before every
\* uppercase letter that is not the first character, then all lowercase
RECURSIVE Flatten(_)
Flatten(ss) == IF ss = <<>> THEN <<>> ELSE Head(ss) \o Flatten(Tail(ss))
SnakeCase(field) ==
    Flatten([i \in 1..Len(field) |->
                IF i # 1 /\ IsUpper(field[i])
                THEN <<"_", Lower(field[i])>>
                ELSE <<Lower(field[i])>>])

\* the ordering step raises for this request
OrderingRaises ==
    /\ OrderingGiven
    /\ \/ Len(Tokens) # 2
       \/ ~node_ordering /\ SnakeCase(Tokens[1]) \notin Columns

----------------------------------------------------------------------------
\* C1: a limited request returns exactly the rows at the positions
\* [offset, offset + limit) of the ordered sequence, in sequence order, so
\* len(results) = min(limit, max(0, N - offset)); without an ordering the
\* ordered sequence is the sequence itself.
C1_ResultsAreTheWindow ==
    (Resolved /\ Limited) =>
        /\ IsWindow(Results, Ordered, Offset, Limit)
        /\ Len(Results) = Min(Limit, Max(0, N - Offset))
        /\ (~OrderingGiven => Ordered = store)

C1_Witness ==
    /\ Resolved /\ Limited /\ ~OrderingGiven
    /\ Limit = 2 /\ Offset = 1 /\ N = 3
    /\ Len(Results) = 2 /\ Results[1].id = 2 /\ Results[2].id = 3

\* C2: for a limited request the totalCount resolved after the planner ran
\* equals N, on the fast path (offset + n) and on the slow path (count),
\* also for offsets at or beyond N.
C2_TotalCountIsN ==
    (Resolved /\ Limited) =>
        /\ Cached = Some(N)
        /\ \A i \in 1..Len(totals) : totals[i].value = N

C2_Witness ==
    /\ Resolved /\ Limited /\ Offset > 0
    /\ 0 < Len(Results) /\ Len(Results) < Limit
    /\ CountCalls = 0
    /\ Len(totals) >= 1 /\ totals[1].value = N

\* C3: for a limited request hasNextPage = (offset + limit < N), on both
\* paths and for offsets that are no multiple of the limit.
C3_HasNextPage ==
    (Resolved /\ Limited) =>
        (PageInfoOf.has_next_page <=> (Offset + Limit < N))

C3_Witness ==
    /\ Resolved /\ Limited /\ Offset > 0
    /\ CountCalls = 1
    /\ PageInfoOf.has_next_page

\* C4 as claimed: hasPreviousPage = (offset > 0) for every request, with or
\* without a limit.
C4_Original ==
    Resolved => (PageInfoOf.has_previous_page <=> (Offset > 0))

\* C4: hasPreviousPage = (offset > 0) for every request with a limit; a
\* request without a limit gets hasPreviousPage = false whatever the offset.
C4_HasPreviousPage ==
    Resolved => (PageInfoOf.has_previous_page <=> (Limited /\ Offset > 0))

C4_Witness ==
    /\ Resolved /\ Limited /\ Offset > 0
    /\ PageInfoOf.has_previous_page

\* C5: when a limited request returns n rows with 0 < n < limit, or no row
\* at offset 0, no count is issued by the planner or by the totalCount
\* resolver, and the total cached and returned is offset + n.
C5_NoCountOnLastPage ==
    (/\ Resolved /\ Limited
     /\ \/ 0 < Len(Results) /\ Len(Results) < Limit
        \/ Len(Results) = 0 /\ Offset = 0) =>
        /\ CountCalls = 0
        /\ Cached = Some(Offset + Len(Results))
        /\ \A i \in 1..Len(totals) : totals[i].value = Offset + Len(Results)

C5_Witness ==
    /\ Resolved /\ Limited
    /\ Len(Results) = 0 /\ Offset = 0
    /\ Len(totals) >= 1 /\ totals[1].value = 0
    /\ CountCalls = 0

\* C6: when a limited request returns exactly limit rows, exactly one count
\* is issued over the planner and the totalCount resolver together, and the
\* cached total is the count of the sequence.
C6_OneCountOnFullPage ==
    (Resolved /\ Limited /\ Len(Results) = Limit) =>
        /\ CountCalls = 1
        /\ Cached = Some(Len(Ordered))
        /\ Len(Ordered) = N

C6_Witness ==
    /\ Resolved /\ Limited /\ Len(Results) = Limit
    /\ Len(totals) >= 1 /\ totals[1].value = N
    /\ CountCalls = 1

\* C7 as claimed: every request with a limit <= 0 fails with a message that
\* contains "positive integer", before any slice, materialization or count,
\* and with the cache slot untouched.
C7_Original ==
    (Called /\ Limited /\ Limit <= 0) =>
        /\ pc = "failed"
        /\ Contains(Get(error).message, PositiveInteger)
        /\ calls = <<>>
        /\ context = FreshContext

\* C7: a request with a limit <= 0 fails before any slice, materialization
\* or count and leaves the request context as it was before the call (the
\* context of Init); the error carries "positive integer" unless the
\* ordering step, which runs first, raised.
C7_InvalidLimitFails ==
    (Called /\ Limited /\ Limit <= 0) =>
        /\ pc = "failed"
        /\ connection = None
        /\ calls = <<>>
        /\ totals = <<>>
        /\ context = FreshContext
        /\ OrderingRaises => Get(error).type \in {"ValueError", "FieldError"}
        /\ ~OrderingRaises =>
              /\ Get(error).type = "AssertionError"
              /\ Contains(Get(error).message, PositiveInteger)

C7_Witness ==
    /\ pc = "failed" /\ Limited /\ Limit = 0
    /\ args.ordering = Some(O_createdAt_desc)
    /\ N = 3
    /\ Contains(Get(error).message, PositiveInteger)

\* C8 as claimed: with max_limit = H the slice is taken with the effective
\* limit min(limit, H), or H when no limit was requested, so at most H rows
\* are returned.
C8_HardLimitCaps ==
    (Resolved /\ ~IsNone(max_limit)) =>
        LET effective == IF Limited THEN Min(Limit, Get(max_limit))
                         ELSE Get(max_limit)
        IN  /\ Len(Results) <= Get(max_limit)
            /\ IsWindow(Results, Ordered, Offset, effective)

\* the rows are ordered by the column, results are the window of that order
IsRearrangement(a, b) ==
    /\ Len(a) = Len(b)
    /\ \A i \in 1..Len(b) : \E j \in 1..Len(a) : a[j] = b[i]
    /\ \A i \in 1..Len(a) : \E j \in 1..Len(b) : b[j] = a[i]

IsOrderedWindow(column, descending) ==
    /\ pc = "resolved"
    /\ IsRearrangement(Ordered, store)
    /\ IsSortedBy(Ordered, column, descending)
    /\ IsWindow(Results, Ordered, Offset, Limit)

\* C9 as claimed: every request with an ordering "<field>, <dir>" and a
\* limit gets the [offset, offset + limit) window of the sequence sorted by
\* the snake_case form of <field>, descending exactly when <dir> is "desc".
C9_Original ==
    (/\ Called /\ Limited /\ Limit > 0
     /\ OrderingGiven /\ Len(Tokens) = 2
     /\ SnakeCase(Tokens[1]) \in Columns) =>
        IsOrderedWindow(SnakeCase(Tokens[1]), Tokens[2] = S_desc)

\* C9: the same, for a node type that declares no callable `ordering`; a
\* node type that declares one gets the order its callable returns.
C9_OrderedWindow ==
    (/\ Called /\ Limited /\ Limit > 0
     /\ ~node_ordering
     /\ OrderingGiven /\ Len(Tokens) = 2
     /\ SnakeCase(Tokens[1]) \in Columns) =>
        IsOrderedWindow(SnakeCase(Tokens[1]), Tokens[2] = S_desc)

C9_Witness ==
    /\ Resolved /\ Limited /\ ~node_ordering
    /\ args.ordering = Some(O_createdAt_desc)
    /\ Limit = 2 /\ Offset = 1 /\ N = 3
    /\ Len(Results) = 2
    /\ Results[1].created_at > Results[2].created_at
    /\ Ordered # store

\* C10 as claimed: for any resolved window two calls of resolve_total_count
\* return the same value and the second issues no count.
C10_Original ==
    Len(totals) >= 2 =>
        /\ totals[1].value = totals[2].value
        /\ totals[2].calls = <<>>

\* C10: two calls of resolve_total_count return the same value; for a
\* request with a limit the second call issues no count, for a request
\* without a limit on a context with no cached total each call counts.
C10_Idempotent ==
    Len(totals) >= 2 =>
        /\ totals[1].value = totals[2].value
        /\ Limited => totals[2].calls = <<>>
        /\ (~Limited /\ IsNone(Cached)) =>
              totals[1].calls = <<"count">> /\ totals[2].calls = <<"count">>

C10_Witness ==
    /\ Resolved /\ Limited /\ Len(Results) = Limit
    /\ Len(totals) = 2
    /\ totals[1].value = N /\ totals[2].value = N
    /\ CountCalls = 1

\* C13: a limited request that returns no row at a positive offset takes
\* the counting path: exactly one count is issued, results is empty,
\* totalCount is N, hasNextPage is false and hasPreviousPage is true.
C13_EmptyPageBeyondEndCounts ==
    (Resolved /\ Limited /\ Offset > 0 /\ Len(Results) = 0) =>
        /\ calls[Len(calls)] = "count"
        /\ CountCalls = 1
        /\ Results = <<>>
        /\ Cached = Some(N)
        /\ \A i \in 1..Len(totals) : totals[i].value = N
        /\ ~PageInfoOf.has_next_page
        /\ PageInfoOf.has_previous_page

C13_Witness ==
    /\ Resolved /\ Limited /\ Offset = 3 /\ N = 2
    /\ Len(Results) = 0
    /\ CountCalls = 1
    /\ Len(totals) >= 1 /\ totals[1].value = 2

\* C14 as claimed: every ordering string that, spaces removed, does not
\* split on ',' into exactly two tokens makes the resolution fail before the
\* sequence is sliced, materialized or counted, with no write to the cache
\* slot and no results.
C14_Original ==
    (Called /\ ~IsNone(args.ordering) /\ Len(Tokens) # 2) =>
        /\ pc = "failed"
        /\ connection = None
        /\ calls = <<>>
        /\ context = FreshContext

\* C14: the same for every ordering string that is not empty; the empty
\* string is taken as no ordering and the request resolves unordered.
C14_MalformedOrderingFails ==
    /\ (Called /\ OrderingGiven /\ Len(Tokens) # 2) =>
          /\ pc = "failed"
          /\ Get(error).type = "ValueError"
          /\ connection = None
          /\ calls = <<>>
          /\ totals = <<>>
          /\ context = FreshContext
    /\ (Resolved /\ args.ordering = Some(O_empty)) => Ordered = store

C14_Witness ==
    /\ pc = "failed" /\ Limited /\ Limit = 2 /\ N = 3
    /\ args.ordering = Some(O_id_desc_x)
    /\ Len(Tokens) = 3
    /\ connection = None /\ calls = <<>>

\* field f returned a connection / was requested with, without a limit
FieldResolved(f) == fields[f].pc = "resolved"
FieldUnlimited(f) == IsNone(fields[f].args.limit)
FieldLimited(f) == ~IsNone(fields[f].args.limit)

\* every planner invocation made so far on the context ran before f's
RanLast(f) == \A g \in Fields \ {f} : fields[g].rank < fields[f].rank

\* every totalCount returned so far for field f is the size of f's sequence
FieldTotalsAreOwn(f) ==
    \A i \in 1..Len(fields[f].totals) :
        fields[f].totals[i].value = Len(fields[f].store)

\* C11 as claimed: two paginated fields (fields requested with a limit)
\* resolved with the same request context do not share a cache slot; under
\* every interleaving of the two planners and the two totalCount resolvers
\* the totalCount returned for each field is the size of that field's own
\* sequence.
C11_FieldsHaveOwnTotals ==
    \A f \in Fields :
        (FieldResolved(f) /\ FieldLimited(f)) => FieldTotalsAreOwn(f)

\* C12 as claimed: for a request without a limit the planner writes no
\* total to the cache slot, and the totalCount resolver returns count() of
\* the request's own sequence, whatever planner ran earlier on the same
\* request context.
C12_UnlimitedCountsOwnSequence ==
    /\ (\A f \in Fields : FieldResolved(f) => FieldUnlimited(f)) => IsNone(Cached)
    /\ \A f \in Fields :
          (FieldResolved(f) /\ FieldUnlimited(f) /\ RanLast(f)) =>
              FieldTotalsAreOwn(f)

====
